---------------------------- MODULE Spec2Model ----------------------------
(***************************************************************************)
(* The list-verification pipeline of disposable-email-domains              *)
(* (src/verify.py), followed by fetch_domains.py, the two discovery        *)
(* scripts and verify_dns.py.  A text line is a sequence of one-character  *)
(* strings;                                                                *)
(* the Python string operations the checks use (split, strip, lower,       *)
(* startswith, the ordinal comparison behind sorted, the regular           *)
(* expression) are operators computed on those sequences.                  *)
(*                                                                         *)
(* The five diagnostic headers of verify.py (lines 59, 68, 77, 86, 109)    *)
(* carry an `f' prefix in front of a `{!r}' .format template.  The model   *)
(* reads each of them as the header line it is written to emit.            *)
(***************************************************************************)
EXTENDS Integers, Sequences, FiniteSets, TLC

(***************************************************************************)
(* Characters and Python's str operations                                  *)
(***************************************************************************)

\* The characters of the model with their code points: the ASCII digits and
\* letters and the punctuation a list line is written with.
Digits == << "0", "1", "2", "3", "4", "5", "6", "7", "8", "9" >>
UpperCase ==
  << "A", "B", "C", "D", "E", "F", "G", "H", "I", "J", "K", "L", "M",
     "N", "O", "P", "Q", "R", "S", "T", "U", "V", "W", "X", "Y", "Z" >>
LowerCase ==
  << "a", "b", "c", "d", "e", "f", "g", "h", "i", "j", "k", "l", "m",
     "n", "o", "p", "q", "r", "s", "t", "u", "v", "w", "x", "y", "z" >>
Punctuation == { "\t", " ", "#", "-", ".", "@", "_" }

Chars == Punctuation \cup {Digits[i] : i \in DOMAIN Digits}
           \cup {UpperCase[i] : i \in DOMAIN UpperCase}
           \cup {LowerCase[i] : i \in DOMAIN LowerCase}

\* ord(c): the code point of a character.
Ord ==
  [c \in Chars |->
     CASE c = "\t" -> 9
       [] c = " " -> 32
       [] c = "#" -> 35
       [] c = "-" -> 45
       [] c = "." -> 46
       [] c = "@" -> 64
       [] c = "_" -> 95
       [] \E i \in DOMAIN Digits : Digits[i] = c ->
            47 + (CHOOSE i \in DOMAIN Digits : Digits[i] = c)
       [] \E i \in DOMAIN UpperCase : UpperCase[i] = c ->
            64 + (CHOOSE i \in DOMAIN UpperCase : UpperCase[i] = c)
       [] OTHER ->
            96 + (CHOOSE i \in DOMAIN LowerCase : LowerCase[i] = c)]

IsUpper(c) == Ord[c] >= 65 /\ Ord[c] <= 90
IsLowerAlpha(c) == Ord[c] >= 97 /\ Ord[c] <= 122
IsAlpha(c) == IsUpper(c) \/ IsLowerAlpha(c)
IsDigit(c) == Ord[c] >= 48 /\ Ord[c] <= 57
IsAlnum(c) == IsAlpha(c) \/ IsDigit(c)
IsSpace(c) == c = " " \/ c = "\t"

\* The position of the first occurrence of character c in s, 0 when absent.
Find(s, c) ==
  IF \E i \in DOMAIN s : s[i] = c
  THEN CHOOSE i \in DOMAIN s : s[i] = c /\ \A j \in 1..(i - 1) : s[j] # c
  ELSE 0

\* line.split('#')[0]: the text before the first '#', the whole line without one.
SplitHash0(line) ==
  LET p == Find(line, "#")
  IN  IF p = 0 THEN line ELSE SubSeq(line, 1, p - 1)

\* s.strip(): s without its leading and trailing whitespace.
Strip(s) ==
  LET keep == {i \in DOMAIN s : ~IsSpace(s[i])}
  IN  IF keep = {} THEN << >>
      ELSE SubSeq(s, CHOOSE i \in keep : \A j \in keep : i <= j,
                     CHOOSE i \in keep : \A j \in keep : j <= i)

\* line.split('#')[0].strip()
StripComment(line) == Strip(SplitHash0(line))

\* line.startswith("#")
StartsWithHash(line) == Len(line) >= 1 /\ line[1] = "#"

\* s.lower() on ASCII text.
LowerChar(c) == IF IsUpper(c) THEN LowerCase[Ord[c] - 64] ELSE c
Lower(s) == [i \in DOMAIN s |-> LowerChar(s[i])]

\* a < b for Python str: lexicographic by code point, a proper prefix first.
StrLess(a, b) ==
  \/ /\ Len(a) < Len(b)
     /\ \A i \in DOMAIN a : a[i] = b[i]
  \/ \E i \in DOMAIN a \cap DOMAIN b :
        /\ \A j \in 1..(i - 1) : a[j] = b[j]
        /\ Ord[a[i]] < Ord[b[i]]

StrLeq(a, b) == a = b \/ StrLess(a, b)

\* sorted(lines): the lines in ascending order (equal lines are indistinguishable,
\* so stability does not show).
RECURSIVE InsertSorted(_, _)
InsertSorted(x, s) ==
  IF s = << >> THEN << x >>
  ELSE IF StrLeq(x, Head(s)) THEN << x >> \o s
  ELSE << Head(s) >> \o InsertSorted(x, Tail(s))

RECURSIVE Sorted(_)
Sorted(s) == IF s = << >> THEN << >> ELSE InsertSorted(Head(s), Sorted(Tail(s)))

\* sorted(aSet): the elements of a set of strings in ascending order.
RECURSIVE SortedSet(_)
SortedSet(S) ==
  IF S = {} THEN << >>
  ELSE LET m == CHOOSE x \in S : \A y \in S : StrLeq(x, y)
       IN  << m >> \o SortedSet(S \ {m})

\* s.split("."): the labels of s; one (possibly empty) label when s holds no dot.
RECURSIVE SplitDot(_)
SplitDot(s) ==
  LET p == Find(s, ".")
  IN  IF p = 0 THEN << s >>
      ELSE << SubSeq(s, 1, p - 1) >> \o SplitDot(SubSeq(s, p + 1, Len(s)))

\* ".".join(labels)
RECURSIVE JoinDot(_)
JoinDot(labels) ==
  IF labels = << >> THEN << >>
  ELSE IF Len(labels) = 1 THEN labels[1]
  ELSE labels[1] \o << "." >> \o JoinDot(Tail(labels))

\* The set of elements of a sequence.
Range(s) == {s[i] : i \in DOMAIN s}

(***************************************************************************)
(* The public suffix list: the dataset download_suffixes stores and the    *)
(* queries of the publicsuffixlist package the checks call                 *)
(***************************************************************************)

\* A value no string equals: Python's None.
None == << "None" >>

\* The rules of the stored dataset: plain rules, a wildcard rule and an
\* exception rule, as in the public suffix list (com, uk, co.uk, *.ck, !www.ck).
PlainRules == { << "c", "o", "m" >>, << "u", "k" >>, << "c", "o", ".", "u", "k" >> }
WildcardRules == { << "c", "k" >> }
ExceptionRules == { << "w", "w", "w", ".", "c", "k" >> }
PublicSuffixRules ==
  [plain |-> PlainRules, wildcard |-> WildcardRules, exception |-> ExceptionRules]

\* ".".join(labels[k-1:]) with k counted from 1.
SuffixFrom(labels, k) == JoinDot(SubSeq(labels, k, Len(labels)))

\* The first position (longest suffix) at which a rule of the dataset applies to
\* the labels, 0 when none does.
FirstRuleAt(rules, labels) ==
  LET applies(k) ==
        LET s == SuffixFrom(labels, k)
        IN  \/ s \in rules.exception
            \/ (k > 1 /\ s \in rules.wildcard)
            \/ s \in rules.plain
      hits == {k \in DOMAIN labels : applies(k)}
  IN  IF hits = {} THEN 0 ELSE CHOOSE k \in hits : \A j \in hits : k <= j

\* PublicSuffixList.publicsuffix(domain): the longest public suffix of the domain;
\* None for a domain with an empty label; an unlisted top-level label is a suffix.
publicsuffix(rules, domain) ==
  LET labels == SplitDot(domain)
      ll == Len(labels)
      k == FirstRuleAt(rules, labels)
      s == SuffixFrom(labels, k)
  IN  IF << >> \in Range(labels) THEN None
      ELSE IF ll = 1 THEN domain
      ELSE IF k = 0 THEN labels[ll]
      ELSE IF s \in rules.exception
           THEN (IF k + 1 <= ll THEN SuffixFrom(labels, k + 1) ELSE None)
      ELSE IF k > 1 /\ s \in rules.wildcard THEN SuffixFrom(labels, k - 1)
      ELSE s

\* PublicSuffixList.privatesuffix(domain): the public suffix and one more label;
\* None for a domain that has no private part.
privatesuffix(rules, domain) ==
  LET labels == SplitDot(domain)
      ll == Len(labels)
      k == FirstRuleAt(rules, labels)
      s == SuffixFrom(labels, k)
  IN  IF << >> \in Range(labels) THEN None
      ELSE IF ll <= 1 THEN None
      ELSE IF k = 0 THEN SuffixFrom(labels, ll - 1)
      ELSE IF s \in rules.exception THEN s
      ELSE IF k > 1 /\ s \in rules.wildcard
           THEN (IF k <= 2 THEN None ELSE SuffixFrom(labels, k - 2))
      ELSE IF k > 1 THEN SuffixFrom(labels, k - 1)
      ELSE None

\* PublicSuffixList.privateparts(domain): the labels in front of the private
\* suffix followed by the private suffix; None when there is no private suffix.
privateparts(rules, domain) ==
  LET s == privatesuffix(rules, domain)
      pre == SubSeq(domain, 1, Len(domain) - (Len(s) + 1))
  IN  IF s = None THEN None
      ELSE IF pre = << >> THEN << s >>
      ELSE SplitDot(pre) \o << s >>

(***************************************************************************)
(* The two list files and the lines they are drawn from                    *)
(***************************************************************************)

blocklist == "disposable_email_blocklist.conf"
allowlist == "allowlist.conf"
Filenames == {allowlist, blocklist}

\* The longest list of each file.
MaxDeny == 2
MaxAllow == 1

\* Lines of a list file: entries, an entry behind a blank, an entry with a
\* trailing comment, a comment line, a blank line, an entry with an upper-case
\* letter, public suffixes, names with one and with two private labels, a label
\* that starts with a hyphen, a name with an empty label.
DenyLines ==
  { << "a", ".", "c", "o", "m" >>,
    << "b", ".", "c", "o", "m" >>,
    << " ", "b", ".", "c", "o", "m" >>,
    << "a", ".", "c", "o", "m", " ", "#", "X" >>,
    << "#", "c" >>,
    << >>,
    << "B", ".", "c", "o", "m" >>,
    << "c", "o", ".", "u", "k" >>,
    << "f", "o", "o", ".", "c", "o", ".", "u", "k" >>,
    << "m", "a", "i", "l", ".", "f", "o", "o", ".", "c", "o", ".", "u", "k" >>,
    << "-", "a", ".", "c", "o", "m" >>,
    << "a", ".", ".", "c", "o", "m" >>,
    << "f", "o", "o", ".", "c", "k" >>,
    << "w", "w", "w", ".", "c", "k" >> }

AllowLines ==
  { << "a", ".", "c", "o", "m" >>,
    << "B", ".", "c", "o", "m" >>,
    << "c", "o", ".", "u", "k" >>,
    << "#", "c" >> }

\* The sequences of at most n elements of S.
SeqsUpTo(S, n) == UNION {[1..k -> S] : k \in 0..n}

\* open(filename).read().splitlines() for the two files.
FileContents ==
  {[f \in Filenames |-> IF f = allowlist THEN a ELSE d] :
     a \in SeqsUpTo(AllowLines, MaxAllow), d \in SeqsUpTo(DenyLines, MaxDeny)}

(***************************************************************************)
(* State                                                                   *)
(***************************************************************************)

VARIABLES
  files,        \* filename -> the lines of the file
  suffix_file,  \* the rules stored in public_suffix_list.dat
  pc,           \* the statement about to run
  executed,     \* the calls made so far, in order
  log,          \* the logging output so far
  raised,       \* the exception that ended the run, "none" otherwise
  exit_status   \* the exit status of the process, -1 while it runs

\* The state of the scripts beside verify.py: scripts/discover_new_domains.py,
\* scripts/verify_domains.py and fetch_domains.py.
VARIABLES
  config,                 \* Config(): is_ci, max_attempts and the stop limits
  screenshot_dir,         \* the domains with a <domain>.png when the script starts
  saved,                  \* the domains whose screenshot this run has written
  blocklist_domains,      \* run_discovery: the local set blocklist
  new_domains_found,
  known_domains_found,
  all_domains_seen,
  attempt,
  unsuccessful_attempts,
  emails_left,            \* iterations left of the loop over emails_this_session
  domains_to_find,        \* run_verification
  found_domains,
  no_results_counter,
  raw_domains,            \* fetch_domains.main: what fetcher.fetch() returned
  filtered_domains,
  total_added,
  added,                  \* what add_domains_to_blocklist returned
  dns_answers             \* verify_dns.py: what the resolver does, line by line

script_vars ==
  << config, screenshot_dir, saved, blocklist_domains, new_domains_found,
     known_domains_found, all_domains_seen, attempt, unsuccessful_attempts,
     emails_left, domains_to_find, found_domains, no_results_counter,
     raw_domains, filtered_domains, total_added, added, dns_answers >>

vars ==
  << files, suffix_file, pc, executed, log, raised, exit_status, script_vars >>

\* verify.py runs: the other scripts have not started.
ScriptsIdle ==
  /\ config = [is_ci |-> FALSE, max_attempts |-> 0,
               max_unsuccessful_attempts |-> 0, max_no_results |-> 0]
  /\ screenshot_dir = {}
  /\ saved = {}
  /\ blocklist_domains = {}
  /\ new_domains_found = {}
  /\ known_domains_found = {}
  /\ all_domains_seen = {}
  /\ attempt = 0
  /\ unsuccessful_attempts = 0
  /\ emails_left = 0
  /\ domains_to_find = {}
  /\ found_domains = {}
  /\ no_results_counter = 0
  /\ raw_domains = {}
  /\ filtered_domains = {}
  /\ total_added = 0
  /\ added = 0
  /\ dns_answers = [f \in Filenames |-> << >>]

NoRules == [plain |-> {}, wildcard |-> {}, exception |-> {}]

Call(fn, args) == [fn |-> fn, args |-> args]

\* One group of logging output: the function that wrote it, the file it names
\* and the lines it lists.
Report(fn, file, items) == [fn |-> fn, file |-> file, items |-> items]

\* sys.exit(1) after the error lines of a failed check.
SysExit1(report) ==
  /\ log' = Append(log, report)
  /\ exit_status' = 1
  /\ pc' = "exit"
  /\ UNCHANGED << raised, script_vars >>

\* An exception nobody catches: the interpreter prints the traceback and exits 1.
Uncaught(exception) ==
  /\ raised' = exception
  /\ exit_status' = 1
  /\ pc' = "exit"
  /\ UNCHANGED << log, script_vars >>

\* The function returns to its caller.
Return(ret) ==
  /\ pc' = ret
  /\ UNCHANGED << log, raised, exit_status, script_vars >>

(***************************************************************************)
(* The check functions of verify.py                                        *)
(***************************************************************************)

\* The elements of a finite set of integers in ascending order.
RECURSIVE Ascending(_)
Ascending(S) ==
  IF S = {} THEN << >>
  ELSE LET m == CHOOSE x \in S : \A y \in S : x <= y
       IN  << m >> \o Ascending(S \ {m})

\* The filter the checks repeat:
\* not line.startswith("#") and line.split('#')[0].strip()
IsEntryLine(line) == ~StartsWithHash(line) /\ StripComment(line) # << >>

\* download_suffixes: the response body is stored in public_suffix_list.dat.
download_suffixes(ret) ==
  /\ suffix_file' = PublicSuffixRules
  /\ executed' = Append(executed, Call("download_suffixes", << >>))
  /\ Return(ret)
  /\ UNCHANGED files

\* check_for_public_suffixes, the loop: the numbers (from 1) of the lines whose
\* text, comment and blanks removed, is not empty and is its own public suffix.
\* PublicSuffixLines with the flag overwritten on every line: only a suffix on
\* the last line of the file is kept.
PublicSuffixLines_LastLineOnly(rules, lines) ==
  {i \in DOMAIN lines :
     LET current_line == StripComment(lines[i])
     IN  /\ i = Len(lines)
         /\ current_line # << >>
         /\ publicsuffix(rules, current_line) = current_line}

PublicSuffixLines(rules, lines) ==
  {i \in DOMAIN lines :
     LET current_line == StripComment(lines[i])
     IN  /\ current_line # << >>
         /\ publicsuffix(rules, current_line) = current_line}

\* check_for_public_suffixes with sys.exit(1) inside the loop: only the first
\* suffix found is logged.
check_for_public_suffixes_ExitsAtFirst(filename, ret) ==
  LET lines == files[filename]
      found == PublicSuffixLines(suffix_file, lines)
      order == Ascending(found)
      errors == [n \in {m \in DOMAIN order : m = 1} |->
                   [lineno |-> order[n], text |-> StripComment(lines[order[n]])]]
  IN  /\ executed' = Append(executed, Call("check_for_public_suffixes", << filename >>))
      /\ IF found # {}
         THEN SysExit1(Report("check_for_public_suffixes", filename, errors))
         ELSE Return(ret)
      /\ UNCHANGED << files, suffix_file >>

\* check_for_public_suffixes with the number counted over the lines that are
\* not skipped, not over all the lines of the file.
check_for_public_suffixes_CountsEntriesOnly(filename, ret) ==
  LET lines == files[filename]
      found == PublicSuffixLines(suffix_file, lines)
      order == Ascending(found)
      entryno(i) == Cardinality({j \in 1..i : StripComment(lines[j]) # << >>})
      errors == [n \in DOMAIN order |->
                   [lineno |-> entryno(order[n]), text |-> StripComment(lines[order[n]])]]
  IN  /\ executed' = Append(executed, Call("check_for_public_suffixes", << filename >>))
      /\ IF found # {}
         THEN SysExit1(Report("check_for_public_suffixes", filename, errors))
         ELSE Return(ret)
      /\ UNCHANGED << files, suffix_file >>

check_for_public_suffixes(filename, ret) ==
  LET lines == files[filename]
      found == PublicSuffixLines(suffix_file, lines)
      suffix_detected == found # {}
      order == Ascending(found)
      errors == [n \in DOMAIN order |->
                   [lineno |-> order[n], text |-> StripComment(lines[order[n]])]]
  IN  /\ executed' = Append(executed, Call("check_for_public_suffixes", << filename >>))
      /\ IF suffix_detected
         THEN SysExit1(Report("check_for_public_suffixes", filename, errors))
         ELSE Return(ret)
      /\ UNCHANGED << files, suffix_file >>

\* check_for_third_level_domains: len(None) raises TypeError, and the length is
\* the first condition the comprehension evaluates, on every line of the file.
ThirdLevelRaises(rules, lines) ==
  \E i \in DOMAIN lines : privateparts(rules, StripComment(lines[i])) = None

\* ThirdLevelInvalid with the length compared with 2.
ThirdLevelInvalid_MoreThanTwo(rules, lines) ==
  {StripComment(lines[i]) : i \in
     {j \in DOMAIN lines :
        /\ Len(privateparts(rules, StripComment(lines[j]))) > 2
        /\ ~StartsWithHash(lines[j])
        /\ StripComment(lines[j]) # << >>}}

ThirdLevelInvalid(rules, lines) ==
  {StripComment(lines[i]) : i \in
     {j \in DOMAIN lines :
        /\ Len(privateparts(rules, StripComment(lines[j]))) > 1
        /\ ~StartsWithHash(lines[j])
        /\ StripComment(lines[j]) # << >>}}

check_for_third_level_domains(filename, ret) ==
  LET lines == files[filename]
  IN  /\ executed' = Append(executed, Call("check_for_third_level_domains", << filename >>))
      /\ IF ThirdLevelRaises(suffix_file, lines)
         THEN Uncaught("TypeError")
         ELSE LET invalid == ThirdLevelInvalid(suffix_file, lines)
              IN  IF invalid # {}
                  THEN SysExit1(Report("check_for_third_level_domains", filename,
                                       SortedSet(invalid)))
                  ELSE Return(ret)
      /\ UNCHANGED << files, suffix_file >>

\* check_for_non_lowercase
\* NonLowercaseInvalid that compares the line as read, comment included.
NonLowercaseInvalid_WholeLine(lines) ==
  {StripComment(lines[i]) : i \in
     {j \in DOMAIN lines :
        /\ lines[j] # Lower(lines[j])
        /\ ~StartsWithHash(lines[j])
        /\ StripComment(lines[j]) # << >>}}

NonLowercaseInvalid(lines) ==
  {StripComment(lines[i]) : i \in
     {j \in DOMAIN lines :
        /\ StripComment(lines[j]) # Lower(StripComment(lines[j]))
        /\ ~StartsWithHash(lines[j])
        /\ StripComment(lines[j]) # << >>}}

check_for_non_lowercase(filename, ret) ==
  LET invalid == NonLowercaseInvalid(files[filename])
  IN  /\ executed' = Append(executed, Call("check_for_non_lowercase", << filename >>))
      /\ IF invalid # {}
         THEN SysExit1(Report("check_for_non_lowercase", filename, SortedSet(invalid)))
         ELSE Return(ret)
      /\ UNCHANGED << files, suffix_file >>

\* check_for_duplicates: Counter(lines) - Counter(set(lines)) keeps the keys
\* whose count stays positive, each with its count less one.
EntryTexts(lines) ==
  LET kept == SelectSeq(lines, IsEntryLine)
  IN  [i \in DOMAIN kept |-> StripComment(kept[i])]

Counter(s) == [x \in Range(s) |-> Cardinality({i \in DOMAIN s : s[i] = x})]

CounterMinus(c, d) ==
  LET left(x) == c[x] - (IF x \in DOMAIN d THEN d[x] ELSE 0)
  IN  [x \in {y \in DOMAIN c : left(y) > 0} |-> left(x)]

\* DuplicateCount without the subtraction of Counter(set(lines)).
DuplicateCount_NoSubtraction(lines) == Counter(EntryTexts(lines))

DuplicateCount(lines) ==
  LET texts == EntryTexts(lines)
  IN  CounterMinus(Counter(texts), [x \in Range(texts) |-> 1])

check_for_duplicates(filename, ret) ==
  LET count == DuplicateCount(files[filename])
  IN  /\ executed' = Append(executed, Call("check_for_duplicates", << filename >>))
      /\ IF DOMAIN count # {}
         THEN SysExit1(Report("check_for_duplicates", filename, SortedSet(DOMAIN count)))
         ELSE Return(ret)
      /\ UNCHANGED << files, suffix_file >>

\* check_sort_order: the lines kept are the lines as read, comment and blanks
\* included; the first place where they differ from sorted(lines) is reported.
SortLines(lines) == SelectSeq(lines, IsEntryLine)

\* SortFirstMismatch that keeps looping after a difference: the pair logged is
\* the one at the last place where the two differ.
SortFirstMismatch_Last(lines) ==
  LET kept == SelectSeq(lines, IsEntryLine)
      sorted == Sorted(kept)
      differ == {i \in DOMAIN kept : kept[i] # sorted[i]}
      last == CHOOSE i \in differ : \A j \in differ : j <= i
  IN  IF differ = {} THEN << >>
      ELSE << [before |-> sorted[last], after |-> kept[last]] >>

\* The loop over zip(lines, sorted(lines)): the pair logged at the first place
\* where the two differ, nothing when they agree everywhere.
SortFirstMismatch(lines) ==
  LET kept == SortLines(lines)
      sorted == Sorted(kept)
      differ == {i \in DOMAIN kept : kept[i] # sorted[i]}
      first == CHOOSE i \in differ : \A j \in differ : i <= j
  IN  IF differ = {} THEN << >>
      ELSE << [before |-> sorted[first], after |-> kept[first]] >>

check_sort_order(filename, ret) ==
  LET mismatch == SortFirstMismatch(files[filename])
  IN  /\ executed' = Append(executed, Call("check_sort_order", << filename >>))
      /\ IF mismatch # << >>
         THEN SysExit1(Report("check_sort_order", filename, mismatch))
         ELSE Return(ret)
      /\ UNCHANGED << files, suffix_file >>

\* check_for_intersection
\* Intersection of the lines as read, comment and blanks included.
Intersection_RawLines(lines_a, lines_b) ==
  Range(SelectSeq(lines_a, IsEntryLine)) \cap Range(SelectSeq(lines_b, IsEntryLine))

Intersection(lines_a, lines_b) ==
  Range(EntryTexts(lines_a)) \cap Range(EntryTexts(lines_b))

check_for_intersection(filename_a, filename_b, ret) ==
  LET intersection == Intersection(files[filename_a], files[filename_b])
  IN  /\ executed' = Append(executed,
                            Call("check_for_intersection", << filename_a, filename_b >>))
      /\ IF intersection # {}
         THEN SysExit1(Report("check_for_intersection", "", SortedSet(intersection)))
         ELSE Return(ret)
      /\ UNCHANGED << files, suffix_file >>

\* check_for_valid_domain_format: the regular expression
\*   ^(?:[a-zA-Z0-9](?:[a-zA-Z0-9-]{0,61}[a-zA-Z0-9])?\.)+[a-zA-Z]{2,6}$
RegexMiddleMax == 61
RegexTldMin == 2
RegexTldMax == 6

\* RegexTld with the repetition {2,7}.
RegexTld_UpToSeven(s) ==
  /\ Len(s) >= RegexTldMin
  /\ Len(s) <= RegexTldMax + 1
  /\ \A i \in DOMAIN s : IsAlpha(s[i])

\* [a-zA-Z0-9](?:[a-zA-Z0-9-]{0,61}[a-zA-Z0-9])?
RegexLabel(s) ==
  /\ Len(s) >= 1
  /\ IsAlnum(s[1])
  /\ \/ Len(s) = 1
     \/ /\ Len(s) - 2 <= RegexMiddleMax
        /\ \A i \in 2..(Len(s) - 1) : IsAlnum(s[i]) \/ s[i] = "-"
        /\ IsAlnum(s[Len(s)])

\* [a-zA-Z]{2,6}$
RegexTld(s) ==
  /\ Len(s) >= RegexTldMin
  /\ Len(s) <= RegexTldMax
  /\ \A i \in DOMAIN s : IsAlpha(s[i])

\* (?:label\.)+tld$ matched from position p of s.
RECURSIVE RegexGroups(_, _)
RegexGroups(s, p) ==
  \E q \in p..Len(s) :
     /\ s[q] = "."
     /\ RegexLabel(SubSeq(s, p, q - 1))
     /\ \/ RegexTld(SubSeq(s, q + 1, Len(s)))
        \/ RegexGroups(s, q + 1)

\* domain_regex.match(s)
DomainRegexMatch(s) == RegexGroups(s, 1)

FormatInvalid(lines) ==
  {StripComment(lines[i]) : i \in
     {j \in DOMAIN lines :
        /\ ~DomainRegexMatch(StripComment(lines[j]))
        /\ ~StartsWithHash(lines[j])
        /\ StripComment(lines[j]) # << >>}}

check_for_valid_domain_format(filename, ret) ==
  LET invalid == FormatInvalid(files[filename])
  IN  /\ executed' = Append(executed, Call("check_for_valid_domain_format", << filename >>))
      /\ IF invalid # {}
         THEN SysExit1(Report("check_for_valid_domain_format", filename,
                              SortedSet(invalid)))
         ELSE Return(ret)
      /\ UNCHANGED << files, suffix_file >>

(***************************************************************************)
(* __main__: the calls in program order, one action per statement          *)
(***************************************************************************)

Main_L116 == pc = "L116" /\ download_suffixes("L119")
Main_L119 == pc = "L119" /\ check_for_public_suffixes(blocklist, "L122")
Main_L122 == pc = "L122" /\ check_for_third_level_domains(blocklist, "L125")
Main_L125 == pc = "L125" /\ check_for_non_lowercase(allowlist, "L126")
\* Main_L126 with the duplicate checks left out of the sequence.
Main_L126_SkipsDuplicates ==
  pc = "L126" /\ check_for_non_lowercase(blocklist, "L133")
Main_L126 == pc = "L126" /\ check_for_non_lowercase(blocklist, "L129")
Main_L129 == pc = "L129" /\ check_for_duplicates(allowlist, "L130")
Main_L130 == pc = "L130" /\ check_for_duplicates(blocklist, "L133")
Main_L133 == pc = "L133" /\ check_sort_order(allowlist, "L134")
Main_L134 == pc = "L134" /\ check_sort_order(blocklist, "L137")
Main_L137 == pc = "L137" /\ check_for_intersection(allowlist, blocklist, "L140")
Main_L140 == pc = "L140" /\ check_for_valid_domain_format(allowlist, "L141")
Main_L141 == pc = "L141" /\ check_for_valid_domain_format(blocklist, "L143")

\* logging.info("All domain entries seem valid.") and the end of the script.
Main_L143 ==
  /\ pc = "L143"
  /\ log' = Append(log, Report("__main__", "", << >>))
  /\ exit_status' = 0
  /\ pc' = "end"
  /\ UNCHANGED << files, suffix_file, executed, raised, script_vars >>

Init ==
  /\ files \in FileContents
  /\ suffix_file = NoRules
  /\ pc = "L116"
  /\ executed = << >>
  /\ log = << >>
  /\ raised = "none"
  /\ exit_status = -1
  /\ ScriptsIdle

Next ==
  \/ Main_L116
  \/ Main_L119
  \/ Main_L122
  \/ Main_L125
  \/ Main_L126
  \/ Main_L129
  \/ Main_L130
  \/ Main_L133
  \/ Main_L134
  \/ Main_L137
  \/ Main_L140
  \/ Main_L141
  \/ Main_L143

Spec == Init /\ [][Next]_vars

(***************************************************************************)
(* Each check function called on its own, on any content of the files      *)
(***************************************************************************)

\* Lines at the limits of the domain expression: labels of 63 and of 64
\* characters, hyphens at the start, inside and at the end of a label, top-level
\* labels of 1, 2, 6 and 7 letters and one with a digit, a name of one label.
Repeat(c, n) == [i \in 1..n |-> c]

FormatLines ==
  { Repeat("a", 63) \o << ".", "c", "o", "m" >>,
    Repeat("a", 64) \o << ".", "c", "o", "m" >>,
    << "a", "-", "b", ".", "c", "o", "m" >>,
    << "a", "-", ".", "c", "o", "m" >>,
    << "a", "_", "b", ".", "c", "o", "m" >>,
    << "a", ".", "c" >>,
    << "a", ".", "c", "o" >>,
    << "a", ".", "m", "u", "s", "e", "u", "m" >>,
    << "a", ".", "m", "u", "s", "e", "u", "m", "s" >>,
    << "a", ".", "c", "0", "m" >>,
    << "c", "o", "m" >>,
    << "1", ".", "a", ".", "U", "K", " ", "#", "-" >> }

FormatContents ==
  {[f \in Filenames |-> IF f = g THEN << l >> ELSE << >>] :
     g \in Filenames, l \in FormatLines}

Call_public_suffixes ==
  pc = "call" /\ \E f \in Filenames : check_for_public_suffixes(f, "returned")
Call_third_level_domains ==
  pc = "call" /\ \E f \in Filenames : check_for_third_level_domains(f, "returned")
Call_non_lowercase ==
  pc = "call" /\ \E f \in Filenames : check_for_non_lowercase(f, "returned")
Call_duplicates ==
  pc = "call" /\ \E f \in Filenames : check_for_duplicates(f, "returned")
Call_sort_order ==
  pc = "call" /\ \E f \in Filenames : check_sort_order(f, "returned")
Call_intersection ==
  pc = "call" /\ check_for_intersection(allowlist, blocklist, "returned")
Call_valid_domain_format ==
  pc = "call" /\ \E f \in Filenames : check_for_valid_domain_format(f, "returned")

InitChecks ==
  /\ files \in FileContents \cup FormatContents
  /\ suffix_file = PublicSuffixRules
  /\ pc = "call"
  /\ executed = << >>
  /\ log = << >>
  /\ raised = "none"
  /\ exit_status = -1
  /\ ScriptsIdle

NextChecks ==
  \/ Call_public_suffixes
  \/ Call_third_level_domains
  \/ Call_non_lowercase
  \/ Call_duplicates
  \/ Call_sort_order
  \/ Call_intersection
  \/ Call_valid_domain_format

SpecChecks == InitChecks /\ [][NextChecks]_vars

(***************************************************************************)
(* Properties                                                              *)
(***************************************************************************)

LastCall == executed[Len(executed)]

\* The run ended in sys.exit(1) after a check logged its violations.
FailedCheck == pc = "exit" /\ raised = "none" /\ exit_status = 1

\* The entries of a list as the specification counts them: the text of each line
\* in front of its comment, without surrounding blanks, when any is left.
TrimmedEntries(lines) == {StripComment(lines[i]) : i \in DOMAIN lines} \ {<< >>}

\* A domain that is its own longest-matching public suffix in the dataset.
IsExactPublicSuffix(domain) == publicsuffix(PublicSuffixRules, domain) = domain

\* The calls of a run in the order the specification lists the checks.
FixedOrder ==
  << Call("download_suffixes", << >>),
     Call("check_for_public_suffixes", << blocklist >>),
     Call("check_for_third_level_domains", << blocklist >>),
     Call("check_for_non_lowercase", << allowlist >>),
     Call("check_for_non_lowercase", << blocklist >>),
     Call("check_for_duplicates", << allowlist >>),
     Call("check_for_duplicates", << blocklist >>),
     Call("check_sort_order", << allowlist >>),
     Call("check_sort_order", << blocklist >>),
     Call("check_for_intersection", << allowlist, blocklist >>),
     Call("check_for_valid_domain_format", << allowlist >>),
     Call("check_for_valid_domain_format", << blocklist >>) >>

\* The call finds violations in the files.
Violates(call) ==
  LET lines == files[call.args[1]]
  IN  CASE call.fn = "check_for_public_suffixes" ->
             PublicSuffixLines(PublicSuffixRules, lines) # {}
        [] call.fn = "check_for_third_level_domains" ->
             /\ ~ThirdLevelRaises(PublicSuffixRules, lines)
             /\ ThirdLevelInvalid(PublicSuffixRules, lines) # {}
        [] call.fn = "check_for_non_lowercase" -> NonLowercaseInvalid(lines) # {}
        [] call.fn = "check_for_duplicates" -> DOMAIN DuplicateCount(lines) # {}
        [] call.fn = "check_sort_order" -> SortFirstMismatch(lines) # << >>
        [] call.fn = "check_for_intersection" ->
             Intersection(lines, files[call.args[2]]) # {}
        [] call.fn = "check_for_valid_domain_format" -> FormatInvalid(lines) # {}
        [] OTHER -> FALSE

\* The call ends in an exception.
Raises(call) ==
  /\ call.fn = "check_for_third_level_domains"
  /\ ThirdLevelRaises(PublicSuffixRules, files[call.args[1]])

\* C1: the calls of a run are a prefix of the fixed order public-suffix (deny),
\* domain-level (deny), case, duplicates, sort order (allow, then deny),
\* intersection, syntax (allow, then deny); every call before the last one found
\* nothing; a call that finds violations ends the run with status 1, and the
\* only diagnostics in the log are those of that call.
C1_FixedOrderFailFast ==
  /\ Len(executed) <= Len(FixedOrder)
  /\ \A i \in DOMAIN executed : executed[i] = FixedOrder[i]
  /\ \A i \in 1..(Len(executed) - 1) :
        ~Violates(executed[i]) /\ ~Raises(executed[i])
  /\ \A i \in DOMAIN executed :
        Violates(executed[i]) =>
          /\ i = Len(executed)
          /\ pc = "exit"
          /\ exit_status = 1
          /\ Len(log) = 1
          /\ log[1].fn = executed[i].fn
  /\ (pc = "exit" /\ raised = "none") =>
        (Len(log) = 1 /\ log[1].fn = LastCall.fn /\ Violates(LastCall))
  /\ pc \notin {"exit", "end"} => log = << >>

\* A run that the sort-order check of the deny list ended: the nine calls before
\* it passed and the three after it were not made.
C1_Witness ==
  /\ FailedCheck
  /\ LastCall = Call("check_sort_order", << blocklist >>)
  /\ Len(executed) = 9
  /\ Len(log) = 1

\* No check finds a violation in the files.
NoViolation == \A i \in 2..Len(FixedOrder) : ~Violates(FixedOrder[i])

\* C2: a finished run has exit status 0 and the success summary exactly when no
\* check finds a violation.
C2_ExitZeroIffNoViolation ==
  pc \in {"exit", "end"} =>
    ((exit_status = 0 /\ Report("__main__", "", << >>) \in Range(log)) <=> NoViolation)

\* C3: once the public-suffix check has run, it has ended the run exactly when
\* some entry of the deny list is its own longest-matching public suffix; the
\* check is only ever called on the deny list, and a public suffix in the allow
\* list does not make it fail.
C3_PublicSuffixCheck ==
  /\ \A i \in DOMAIN executed :
        executed[i].fn = "check_for_public_suffixes" => executed[i].args = << blocklist >>
  /\ Len(executed) >= 2 =>
        ((FailedCheck /\ Len(executed) = 2 /\ log[1].fn = "check_for_public_suffixes")
           <=> \E e \in TrimmedEntries(files[blocklist]) : IsExactPublicSuffix(e))

\* The check ended a run whose deny list holds co.uk after another entry, while
\* the allow list holds a public suffix too.
C3_Witness ==
  /\ FailedCheck
  /\ LastCall.fn = "check_for_public_suffixes"
  /\ Len(files[blocklist]) = 2
  /\ files[blocklist][1] = << "c", "o", ".", "u", "k" >>
  /\ ~IsExactPublicSuffix(StripComment(files[blocklist][2]))
  /\ \E e \in TrimmedEntries(files[allowlist]) : IsExactPublicSuffix(e)

\* publicSuffixOf and privatePartCount of the specification: the labels of a
\* domain that sit below its public suffix.
PrivatePartCount(domain) ==
  Len(SplitDot(domain)) - Len(SplitDot(publicsuffix(PublicSuffixRules, domain)))

HasPrivatePart(domain) ==
  /\ publicsuffix(PublicSuffixRules, domain) # None
  /\ PrivatePartCount(domain) >= 1

\* The locally curated suffixes of the specification, and its local-suffix
\* rule: a label-aligned suffix of the domain is an override and exactly one
\* label precedes it.
LocalSuffixOverrides == { << "f", "o", "o", ".", "c", "o", ".", "u", "k" >> }

isValidUnderLocalSuffix(domain) ==
  LET labels == SplitDot(domain)
  IN  Len(labels) >= 2 /\ SuffixFrom(labels, 2) \in LocalSuffixOverrides

\* The harness has called fn and the call is over.
Called(fn) == executed # << >> /\ executed[1].fn = fn

\* The lines of the file the call was given.
CalledLines == files[executed[1].args[1]]

\* The texts the failed check listed, none when it returned.
Reported == IF FailedCheck THEN Range(log[1].items) ELSE {}

\* C4 as stated: an entry of the file is accepted by the domain-level check
\* exactly when it has one private part or is valid under the local-suffix rule.
C4_AcceptsOnePartOrOverride ==
  (Called("check_for_third_level_domains") /\ raised = "none") =>
    \A e \in TrimmedEntries(CalledLines) :
       e \notin Reported <=> (PrivatePartCount(e) = 1 \/ isValidUnderLocalSuffix(e))

\* C4, amended: the domain-level check consults no local override.  It raises
\* TypeError exactly when the text of some line of the file has no private part
\* (a blank or comment line, a public suffix, a name with an empty label);
\* otherwise it reports exactly the entries with more than one private part,
\* fails exactly when there is one, and every entry it accepts has exactly one.
C4_RejectsMoreThanOnePrivatePart ==
  Called("check_for_third_level_domains") =>
    /\ raised = "TypeError" <=>
         \E i \in DOMAIN CalledLines : ~HasPrivatePart(StripComment(CalledLines[i]))
    /\ raised = "none" =>
         /\ Reported = {e \in TrimmedEntries(CalledLines) : PrivatePartCount(e) > 1}
         /\ FailedCheck <=> \E e \in TrimmedEntries(CalledLines) : PrivatePartCount(e) > 1
         /\ \A e \in TrimmedEntries(CalledLines) \ Reported : PrivatePartCount(e) = 1

\* The check reported mail.foo.co.uk, which the local-suffix rule would accept,
\* and did not report foo.co.uk.
C4_Witness ==
  /\ Called("check_for_third_level_domains")
  /\ FailedCheck
  /\ CalledLines = << << "f", "o", "o", ".", "c", "o", ".", "u", "k" >>,
                      << "m", "a", "i", "l", ".", "f", "o", "o", ".", "c", "o", ".", "u", "k" >> >>
  /\ isValidUnderLocalSuffix(CalledLines[2])
  /\ log[1].items = << CalledLines[2] >>

\* C5: check_for_intersection fails exactly when the sets of trimmed entries of
\* the two lists have an element in common, and it lists exactly the common
\* elements, each once.
C5_IntersectionIffCommon ==
  Called("check_for_intersection") =>
    LET common == TrimmedEntries(files[allowlist]) \cap TrimmedEntries(files[blocklist])
    IN  /\ FailedCheck <=> common # {}
        /\ FailedCheck => (Range(log[1].items) = common
                            /\ Len(log[1].items) = Cardinality(common))

\* The two lists share a.com, written with a trailing comment in the deny list.
C5_Witness ==
  /\ Called("check_for_intersection")
  /\ FailedCheck
  /\ files[allowlist] = << << "a", ".", "c", "o", "m" >> >>
  /\ << "a", ".", "c", "o", "m" >> \notin Range(files[blocklist])
  /\ log[1].items = << << "a", ".", "c", "o", "m" >> >>

\* The number of lines of the list whose trimmed text is t.
Occurrences(lines, t) == Cardinality({i \in DOMAIN lines : StripComment(lines[i]) = t})

\* C6: check_for_duplicates fails exactly when some trimmed entry of the list it
\* is given occurs more than once in that list, and it lists each such entry
\* exactly once; the other list plays no part.
C6_DuplicatesOncePerValue ==
  Called("check_for_duplicates") =>
    LET twice == {t \in TrimmedEntries(CalledLines) : Occurrences(CalledLines, t) > 1}
    IN  /\ FailedCheck <=> twice # {}
        /\ FailedCheck => (Range(log[1].items) = twice
                            /\ Len(log[1].items) = Cardinality(twice))

\* a.com twice in the deny list and once in the allow list: one violation.
C6_Witness ==
  /\ Called("check_for_duplicates")
  /\ FailedCheck
  /\ executed[1].args = << blocklist >>
  /\ Occurrences(files[blocklist], << "a", ".", "c", "o", "m" >>) = 2
  /\ Occurrences(files[allowlist], << "a", ".", "c", "o", "m" >>) = 1
  /\ log[1].items = << << "a", ".", "c", "o", "m" >> >>

\* The trimmed texts of the non-comment entries of a list, in file order.
TrimmedSeq(lines) ==
  LET texts == [i \in DOMAIN lines |-> StripComment(lines[i])]
  IN  SelectSeq(texts, LAMBDA t : t # << >>)

\* The lines of the non-comment entries of a list as they are written.
EntryLines(lines) == SelectSeq(lines, LAMBDA l : StripComment(l) # << >>)

NonDecreasing(s) == \A i \in 1..(Len(s) - 1) : StrLeq(s[i], s[i + 1])

\* s with its elements i and i + 1 exchanged.
SwapAdjacent(s, i) ==
  [k \in DOMAIN s |-> IF k = i THEN s[i + 1] ELSE IF k = i + 1 THEN s[i] ELSE s[k]]

\* C7: the sort-order check passes exactly when the trimmed texts of the
\* non-comment entries of the list are non-decreasing.
C7_SortPassesIffTrimmedNonDecreasing ==
  Called("check_sort_order") =>
    (~FailedCheck <=> NonDecreasing(TrimmedSeq(CalledLines)))

C9_CaseCheck ==
  Called("check_for_non_lowercase") =>
    LET upper == {t \in TrimmedEntries(CalledLines) : \E i \in DOMAIN t : IsUpper(t[i])}
    IN  /\ FailedCheck <=> upper # {}
        /\ Reported = upper

\* B.com is reported and the entry a.com with the comment #X beside it is not.
C9_Witness ==
  /\ Called("check_for_non_lowercase")
  /\ FailedCheck
  /\ << "a", ".", "c", "o", "m", " ", "#", "X" >> \in Range(CalledLines)
  /\ log[1].items = << << "B", ".", "c", "o", "m" >> >>

\* The domain grammar of the specification: labels of 1 to 63 characters,
\* alphanumeric with hyphens in internal positions only, separated by dots and
\* followed by a top-level label of 2 to 6 letters.
GrammarLabel(l) ==
  /\ Len(l) \in 1..63
  /\ \A i \in DOMAIN l : IsAlnum(l[i]) \/ (l[i] = "-" /\ i # 1 /\ i # Len(l))

GrammarTld(l) == Len(l) \in 2..6 /\ \A i \in DOMAIN l : IsAlpha(l[i])

MatchesGrammar(t) ==
  LET labels == SplitDot(t)
  IN  /\ Len(labels) >= 2
      /\ \A i \in 1..(Len(labels) - 1) : GrammarLabel(labels[i])
      /\ GrammarTld(labels[Len(labels)])

\* C10: the domain-syntax check reports exactly the trimmed entries of the list
\* that do not match the domain grammar.
C10_SyntaxCheck ==
  Called("check_for_valid_domain_format") =>
    LET bad == {t \in TrimmedEntries(CalledLines) : ~MatchesGrammar(t)}
    IN  /\ FailedCheck <=> bad # {}
        /\ Reported = bad

\* A name whose first label has 64 characters is reported.
C10_Witness ==
  /\ Called("check_for_valid_domain_format")
  /\ FailedCheck
  /\ Len(log[1].items) = 1
  /\ Len(SplitDot(log[1].items[1])[1]) = 64

\* Every violation of the check the call makes, as the specification counts
\* them: for the sort-order check every place where the list and its ascending
\* arrangement differ, for the other checks the entries C3 to C10 name.
AllViolations(call) ==
  LET lines == files[call.args[1]]
      entries == TrimmedEntries(lines)
  IN  CASE call.fn = "check_for_public_suffixes" ->
             {[lineno |-> i, text |-> StripComment(lines[i])] : i \in
                {j \in DOMAIN lines : /\ StripComment(lines[j]) # << >>
                                      /\ IsExactPublicSuffix(StripComment(lines[j]))}}
        [] call.fn = "check_for_third_level_domains" ->
             {e \in entries : PrivatePartCount(e) > 1}
        [] call.fn = "check_for_non_lowercase" ->
             {e \in entries : \E i \in DOMAIN e : IsUpper(e[i])}
        [] call.fn = "check_for_duplicates" ->
             {e \in entries : Occurrences(lines, e) > 1}
        [] call.fn = "check_sort_order" ->
             LET kept == EntryLines(lines)
                 sorted == Sorted(kept)
             IN  {[before |-> sorted[i], after |-> kept[i]] : i \in
                    {j \in DOMAIN kept : kept[j] # sorted[j]}}
        [] call.fn = "check_for_intersection" ->
             entries \cap TrimmedEntries(files[call.args[2]])
        [] call.fn = "check_for_valid_domain_format" ->
             {e \in entries : ~MatchesGrammar(e)}

\* C11 as stated: what a failing check reports is the set of all the violations
\* of that check in the list it examines.
C11_ReportsEveryViolation ==
  (executed # << >> /\ FailedCheck) => Reported = AllViolations(executed[1])

\* C11, amended: every failing check but the sort-order check reports the set of
\* all the violations in the list it examines; the sort-order check reports one
\* violation only, the first place where the list leaves ascending order, and
\* says nothing of the later ones.
C11_ReportsEveryViolationButSort ==
  (executed # << >> /\ FailedCheck) =>
    /\ log[1].fn = executed[1].fn
    /\ executed[1].fn # "check_sort_order" => Reported = AllViolations(executed[1])
    /\ executed[1].fn = "check_sort_order" =>
         /\ Len(log[1].items) = 1
         /\ Reported \subseteq AllViolations(executed[1])
         /\ LET kept == EntryLines(CalledLines)
                first == CHOOSE i \in DOMAIN kept :
                           /\ kept[i] # Sorted(kept)[i]
                           /\ \A j \in 1..(i - 1) : kept[j] = Sorted(kept)[j]
            IN  log[1].items[1].after = kept[first]

\* The public-suffix check reported both suffixes of a deny list that holds two,
\* and the sort-order check reported one of two places out of order.
C11_Witness ==
  \/ /\ Called("check_for_public_suffixes")
     /\ FailedCheck
     /\ Len(log[1].items) = 2
     /\ log[1].items[1].text # log[1].items[2].text
  \/ /\ Called("check_sort_order")
     /\ FailedCheck
     /\ Cardinality(AllViolations(executed[1])) = 2

\* A line the specification calls a comment: nothing is left of it once the text
\* from the first '#' on and the surrounding blanks are removed.
IsBlankOrComment(line) == StripComment(line) = << >>

\* The lines of the files the call was given.
ExaminedLines(call) ==
  UNION {Range(files[call.args[k]]) : k \in DOMAIN call.args}

\* C12: blank and comment-only lines are ignored by every check.  A check called
\* on files that hold nothing but such lines returns without a report and
\* without an exception, and whatever the files hold, a check that meets such a
\* line ends by returning or by reporting a failure, never by an exception.
C12_BlankAndCommentLinesIgnored ==
  executed # << >> =>
    /\ (\A l \in ExaminedLines(executed[1]) : IsBlankOrComment(l)) =>
          (pc = "returned" /\ raised = "none" /\ log = << >>)
    /\ (\E l \in ExaminedLines(executed[1]) : IsBlankOrComment(l)) =>
          (raised = "none" /\ pc \in {"returned", "exit"})

(***************************************************************************)
(* The run of verify.py with its environment: the two list files may be    *)
(* missing or unreadable when the module reads them, and the GET of the    *)
(* dataset may fail.  Spec above is the run in which both files were read  *)
(* and the GET answered with the dataset.                                  *)
(***************************************************************************)

\* What open(filename) finds in place of a readable file.  Before the module
\* level has read the lists, files stands for the two paths on disk.
Absent == << << "ENOENT" >> >>
Unreadable == << << "EACCES" >> >>

\* The lines the deny list of this specification is drawn from.
RunDenyLines ==
  { << "a", ".", "c", "o", "m" >>,
    << "b", ".", "c", "o", "m" >>,
    << "c", "o", ".", "u", "k" >>,
    << "m", "a", "i", "l", ".", "f", "o", "o", ".", "c", "o", ".", "u", "k" >> }

DiskContents ==
  {[f \in Filenames |-> IF f = allowlist THEN a ELSE d] :
     a \in SeqsUpTo(AllowLines, MaxAllow) \cup {Absent, Unreadable},
     d \in SeqsUpTo(RunDenyLines, MaxDeny) \cup {Absent, Unreadable}}

\* The answers of get(...): the dataset with status 200, an error page with
\* status 404, an exception of the transport (requests.ConnectionError).
Responses == {"200", "404", "ConnectionError"}

\* What PublicSuffixList reads in the body of the error page: every line that is
\* not blank and not a // comment is taken as a rule, here the one line 404.
ErrorPageRules ==
  [plain |-> { << "4", "0", "4" >> }, wildcard |-> {}, exception |-> {}]

\* Module level, lines 19-21: open(filename).read().splitlines() for the allow
\* list, then for the deny list; the first open that fails raises.
\* Main_L19 that goes on to the download whatever open() found.
Main_L19_IgnoresFailure ==
  /\ pc = "L19"
  /\ Return("L116")
  /\ UNCHANGED << files, suffix_file, executed >>

Main_L19 ==
  /\ pc = "L19"
  /\ IF files[allowlist] = Absent THEN Uncaught("FileNotFoundError")
     ELSE IF files[allowlist] = Unreadable THEN Uncaught("PermissionError")
     ELSE IF files[blocklist] = Absent THEN Uncaught("FileNotFoundError")
     ELSE IF files[blocklist] = Unreadable THEN Uncaught("PermissionError")
     ELSE Return("L116")
  /\ UNCHANGED << files, suffix_file, executed >>

\* download_suffixes for any answer of the GET.  The file is opened for writing,
\* and so emptied, before the request is sent; an exception of the transport
\* leaves it empty; any response, whatever its status, has its body written.
download_suffixes_get(response, ret) ==
  /\ executed' = Append(executed, Call("download_suffixes", << >>))
  /\ UNCHANGED files
  /\ CASE response = "200" -> suffix_file' = PublicSuffixRules /\ Return(ret)
       [] response = "404" -> suffix_file' = ErrorPageRules /\ Return(ret)
       [] response = "ConnectionError" ->
            suffix_file' = NoRules /\ Uncaught("ConnectionError")

Main_L116_Get ==
  pc = "L116" /\ \E response \in Responses : download_suffixes_get(response, "L119")

InitRun ==
  /\ files \in DiskContents
  /\ suffix_file = NoRules
  /\ pc = "L19"
  /\ executed = << >>
  /\ log = << >>
  /\ raised = "none"
  /\ exit_status = -1
  /\ ScriptsIdle

NextRun ==
  \/ Main_L19
  \/ Main_L116_Get
  \/ Main_L119
  \/ Main_L122
  \/ Main_L125
  \/ Main_L126
  \/ Main_L129
  \/ Main_L130
  \/ Main_L133
  \/ Main_L134
  \/ Main_L137
  \/ Main_L140
  \/ Main_L141
  \/ Main_L143

SpecRun == InitRun /\ [][NextRun]_vars

\* The call is one of the checks.
IsCheck(call) == call.fn # "download_suffixes"

\* C13: when the fetch of the dataset fails, by an exception of the transport or
\* by a response that is not the dataset, the run ends there with status 1 and
\* no check is called: the file the checks read holds the dataset whenever a
\* check has been called.
C13_FetchFailureAborts ==
  /\ raised = "ConnectionError" =>
       (pc = "exit" /\ exit_status = 1 /\ \A i \in DOMAIN executed : ~IsCheck(executed[i]))
  /\ (\E i \in DOMAIN executed : IsCheck(executed[i])) => suffix_file = PublicSuffixRules

\* C14: when a list file is missing or unreadable the run ends at the module
\* level with an exception and status 1: the dataset is not fetched, no check is
\* called and nothing is logged.
C14_MissingListFileAborts ==
  (\E f \in Filenames : files[f] \in {Absent, Unreadable}) =>
    /\ pc \in {"L19", "exit"}
    /\ executed = << >>
    /\ suffix_file = NoRules
    /\ log = << >>
    /\ pc = "exit" =>
         (exit_status = 1 /\ raised \in {"FileNotFoundError", "PermissionError"})

\* The deny list is missing while the allow list is there: the run has ended
\* with FileNotFoundError before the download.
C14_Witness ==
  /\ files[blocklist] = Absent
  /\ files[allowlist] \notin {Absent, Unreadable}
  /\ pc = "exit"
  /\ raised = "FileNotFoundError"
  /\ exit_status = 1
  /\ executed = << >>

(***************************************************************************)
(* scripts/discover_new_domains.py: run_discovery                          *)
(***************************************************************************)

\* The largest MAX_ATTEMPTS and MAX_UNSUCCESSFUL_ATTEMPTS of the environment.
MaxAttempts == 4
MaxUnsuccessful == 2

\* emails_this_session = random.randint(3, 5)
DiscoveryEmailsMin == 3
DiscoveryEmailsMax == 5

\* The blocklist file run_discovery compares with: missing, empty, a comment
\* line and an entry, an entry written with a blank and an upper-case letter.
DiscoveryBlocklists ==
  { Absent,
    << >>,
    << << "#", "c" >>, << "a", ".", "c", "o", "m" >> >>,
    << << " ", "B", ".", "c", "o", "m" >> >> }

\* The stems of the *.png files of the screenshot directory.
ScreenshotStems == { << "n", ".", "c", "o", "m" >> }

\* What the page shows in input[name='currentEmailAddress'] once the script has
\* read it: nothing, a text without '@', addresses, an address without domain.
EmailValues ==
  { << >>,
    << "w", "a", "i", "t" >>,
    << "x", "@", "a", ".", "c", "o", "m" >>,
    << "x", "@", "B", ".", "c", "o", "m" >>,
    << "x", "@", "n", ".", "c", "o", "m" >>,
    << "x", "@" >> }

\* load_blocklist: the lines that are not blank and do not start with '#',
\* stripped and in lower case; the empty set when the file does not exist.
load_blocklist(file) ==
  IF file = Absent THEN {}
  ELSE {Lower(Strip(file[i])) : i \in
          {j \in DOMAIN file : Strip(file[j]) # << >> /\ ~StartsWithHash(file[j])}}

\* load_screenshotted_domains: screenshot_file.stem.lower() of every *.png.
load_screenshotted_domains(stems) == {Lower(stem) : stem \in stems}

\* email.split("@")[1]: the text between the first '@' and the next one.
SplitAt1(email) ==
  LET rest == SubSeq(email, Find(email, "@") + 1, Len(email))
      q == Find(rest, "@")
  IN  IF q = 0 THEN rest ELSE SubSeq(rest, 1, q - 1)

\* extract_domain
extract_domain(email) ==
  IF Find(email, "@") # 0 THEN Lower(SplitAt1(email)) ELSE None

\* Lines 343-357: the known domains and the empty result sets.
\* Discovery_L343 that reads the screenshot directory in CI mode as well.
Discovery_L343_AlwaysScreenshots ==
  /\ pc = "L343"
  /\ blocklist_domains' = load_blocklist(files[blocklist])
                            \cup load_screenshotted_domains(screenshot_dir)
  /\ new_domains_found' = {}
  /\ known_domains_found' = {}
  /\ all_domains_seen' = {}
  /\ attempt' = 0
  /\ unsuccessful_attempts' = 0
  /\ pc' = "L360"
  /\ UNCHANGED << files, suffix_file, executed, log, raised, exit_status, config,
                  screenshot_dir, saved, emails_left, domains_to_find,
                  found_domains, no_results_counter, raw_domains,
                  filtered_domains, total_added, added, dns_answers >>

Discovery_L343 ==
  /\ pc = "L343"
  /\ blocklist_domains' =
       load_blocklist(files[blocklist])
         \cup (IF ~config.is_ci THEN load_screenshotted_domains(screenshot_dir) ELSE {})
  /\ new_domains_found' = {}
  /\ known_domains_found' = {}
  /\ all_domains_seen' = {}
  /\ attempt' = 0
  /\ unsuccessful_attempts' = 0
  /\ pc' = "L360"
  /\ UNCHANGED << files, suffix_file, executed, log, raised, exit_status, config,
                  screenshot_dir, saved, emails_left, domains_to_find,
                  found_domains, no_results_counter, raw_domains,
                  filtered_domains, total_added, added, dns_answers >>

\* Lines 360-426: the head of the while loop and the start of a browser
\* session.  p.chromium.launch and new_context stand outside the try: their
\* exception leaves run_discovery and main exits with 1.  A page.goto that
\* fails three times is caught as a session error and the loop goes round with
\* nothing changed.  Otherwise the session draws how many emails it will read.
Discovery_L360 ==
  /\ pc = "L360"
  /\ IF attempt < config.max_attempts
        /\ unsuccessful_attempts < config.max_unsuccessful_attempts
     THEN \/ /\ raised' = "Error"
             /\ exit_status' = 1
             /\ pc' = "exit"
             /\ UNCHANGED emails_left
          \/ UNCHANGED << raised, exit_status, pc, emails_left >>
          \/ /\ emails_left' \in DiscoveryEmailsMin..DiscoveryEmailsMax
             /\ pc' = "L428"
             /\ UNCHANGED << raised, exit_status >>
     ELSE /\ pc' = "L528"
          /\ UNCHANGED << raised, exit_status, emails_left >>
  /\ UNCHANGED << files, suffix_file, executed, log, config, screenshot_dir, saved,
                  blocklist_domains, new_domains_found, known_domains_found,
                  all_domains_seen, attempt, unsuccessful_attempts,
                  domains_to_find, found_domains, no_results_counter,
                  raw_domains, filtered_domains, total_added, added, dns_answers >>

\* Lines 458-495: what one email value does to the sets and to the counter.
\* page.screenshot is tried in local mode only and its failure is swallowed.
\* DiscoveryRecord without the test against the known domains: every domain
\* seen for the first time is recorded as new.
DiscoveryRecord_EveryDomainNew(email_value) ==
  LET domain == extract_domain(email_value)
  IN  IF email_value # << >> /\ Find(email_value, "@") # 0
      THEN IF domain # << >> /\ domain \notin all_domains_seen
           THEN /\ all_domains_seen' = all_domains_seen \cup {domain}
                /\ new_domains_found' = new_domains_found \cup {domain}
                /\ unsuccessful_attempts' = 0
                /\ IF ~config.is_ci
                   THEN saved' \in {saved, saved \cup {domain}}
                   ELSE UNCHANGED saved
                /\ UNCHANGED known_domains_found
           ELSE /\ unsuccessful_attempts' = unsuccessful_attempts + 1
                /\ UNCHANGED << all_domains_seen, new_domains_found,
                                known_domains_found, saved >>
      ELSE UNCHANGED << all_domains_seen, new_domains_found, known_domains_found,
                        saved, unsuccessful_attempts >>

DiscoveryRecord(email_value) ==
  LET domain == extract_domain(email_value)
  IN  IF email_value # << >> /\ Find(email_value, "@") # 0
      THEN IF domain # << >> /\ domain \notin all_domains_seen
           THEN /\ all_domains_seen' = all_domains_seen \cup {domain}
                /\ IF domain \notin blocklist_domains
                   THEN /\ new_domains_found' = new_domains_found \cup {domain}
                        /\ unsuccessful_attempts' = 0
                        /\ IF ~config.is_ci
                           THEN saved' \in {saved, saved \cup {domain}}
                           ELSE UNCHANGED saved
                        /\ UNCHANGED known_domains_found
                   ELSE /\ known_domains_found' = known_domains_found \cup {domain}
                        /\ unsuccessful_attempts' = unsuccessful_attempts + 1
                        /\ UNCHANGED << new_domains_found, saved >>
           ELSE /\ unsuccessful_attempts' = unsuccessful_attempts + 1
                /\ UNCHANGED << all_domains_seen, new_domains_found,
                                known_domains_found, saved >>
      ELSE UNCHANGED << all_domains_seen, new_domains_found, known_domains_found,
                        saved, unsuccessful_attempts >>

\* Lines 428-515: one turn of the loop over range(emails_this_session).  An
\* exception before the value is read (wait_for_selector) is caught and changes
\* nothing; one after the value was handled (the new-email button) changes
\* nothing more.  After the last turn the session ends and the while loop
\* goes round.
Discovery_L428 ==
  /\ pc = "L428"
  /\ emails_left > 0
  /\ attempt' = attempt + 1
  /\ \/ UNCHANGED << all_domains_seen, new_domains_found, known_domains_found,
                     saved, unsuccessful_attempts >>
     \/ \E email_value \in EmailValues : DiscoveryRecord(email_value)
  /\ emails_left' = emails_left - 1
  /\ pc' = IF emails_left = 1 THEN "L360" ELSE "L428"
  /\ UNCHANGED << files, suffix_file, executed, log, raised, exit_status, config,
                  screenshot_dir, blocklist_domains, domains_to_find,
                  found_domains, no_results_counter, raw_domains,
                  filtered_domains, total_added, added, dns_answers >>

\* Line 528 and write_results (531-558): the results are logged and the value
\* returned is 0 when new_domains is not empty, 1 otherwise.
Discovery_L528 ==
  /\ pc = "L528"
  /\ log' = Append(log, Report("write_results", "", SortedSet(new_domains_found)))
  /\ exit_status' = IF new_domains_found # {} THEN 0 ELSE 1
  /\ pc' = "returned"
  /\ UNCHANGED << files, suffix_file, executed, raised, script_vars >>

InitDiscovery ==
  /\ files \in {[f \in Filenames |-> IF f = blocklist THEN b ELSE << >>] :
                  b \in DiscoveryBlocklists}
  /\ suffix_file = NoRules
  /\ pc = "L343"
  /\ executed = << >>
  /\ log = << >>
  /\ raised = "none"
  /\ exit_status = -1
  /\ config \in {[is_ci |-> ci, max_attempts |-> m,
                  max_unsuccessful_attempts |-> u, max_no_results |-> 0] :
                   ci \in BOOLEAN, m \in 1..MaxAttempts, u \in 1..MaxUnsuccessful}
  /\ screenshot_dir \in SUBSET ScreenshotStems
  /\ saved = {}
  /\ blocklist_domains = {}
  /\ new_domains_found = {}
  /\ known_domains_found = {}
  /\ all_domains_seen = {}
  /\ attempt = 0
  /\ unsuccessful_attempts = 0
  /\ emails_left = 0
  /\ domains_to_find = {}
  /\ found_domains = {}
  /\ no_results_counter = 0
  /\ raw_domains = {}
  /\ filtered_domains = {}
  /\ total_added = 0
  /\ added = 0
  /\ dns_answers = [f \in Filenames |-> << >>]

NextDiscovery ==
  \/ Discovery_L343
  \/ Discovery_L360
  \/ Discovery_L428
  \/ Discovery_L528

SpecDiscovery == InitDiscovery /\ [][NextDiscovery]_vars

\* C15: the number of email-generation attempts never exceeds MAX_ATTEMPTS.
C15_AttemptsWithinMax == attempt <= config.max_attempts

(***************************************************************************)
(* scripts/verify_domains.py: run_verification                             *)
(***************************************************************************)

\* The largest MAX_NO_RESULTS of the environment.
MaxNoResults == 2

\* emails_this_session = random.randint(2, 4)
VerificationEmailsMin == 2
VerificationEmailsMax == 4

\* The domains load_domains can return.
VerificationDomains == { << "a", ".", "c", "o", "m" >>, << "b", ".", "c", "o", "m" >> }

\* get_existing_screenshots
get_existing_screenshots(stems, domains) == {d \in domains : d \in stems}

\* Lines 225-240: the domains that have a screenshot already are found; when
\* none is left the results are written at once.
Verification_L225 ==
  /\ pc = "L225"
  /\ found_domains' = get_existing_screenshots(screenshot_dir, domains_to_find)
  /\ attempt' = 0
  /\ no_results_counter' = 0
  /\ pc' = IF Cardinality(domains_to_find) - Cardinality(found_domains') = 0
           THEN "L376" ELSE "L243"
  /\ UNCHANGED << files, suffix_file, executed, log, raised, exit_status, config,
                  screenshot_dir, saved, blocklist_domains, new_domains_found,
                  known_domains_found, all_domains_seen, unsuccessful_attempts,
                  emails_left, domains_to_find, raw_domains, filtered_domains,
                  total_added, added, dns_answers >>

\* Lines 243-297: the head of the while loop and the start of a session; the
\* launch raises out of run_verification, a failed page.goto is a session error.
Verification_L243 ==
  /\ pc = "L243"
  /\ IF /\ attempt < config.max_attempts
        /\ found_domains # domains_to_find
        /\ no_results_counter < config.max_no_results
     THEN \/ /\ raised' = "Error"
             /\ exit_status' = 1
             /\ pc' = "exit"
             /\ UNCHANGED emails_left
          \/ UNCHANGED << raised, exit_status, pc, emails_left >>
          \/ /\ emails_left' \in VerificationEmailsMin..VerificationEmailsMax
             /\ pc' = "L299"
             /\ UNCHANGED << raised, exit_status >>
     ELSE /\ pc' = "L376"
          /\ UNCHANGED << raised, exit_status, emails_left >>
  /\ UNCHANGED << files, suffix_file, executed, log, config, screenshot_dir, saved,
                  blocklist_domains, new_domains_found, known_domains_found,
                  all_domains_seen, attempt, unsuccessful_attempts,
                  domains_to_find, found_domains, no_results_counter,
                  raw_domains, filtered_domains, total_added, added, dns_answers >>

\* Lines 325-350: a wanted domain is found when its screenshot is written; a
\* screenshot that fails changes nothing; any other address counts as no result.
VerificationRecord(email_value) ==
  LET domain == extract_domain(email_value)
  IN  IF email_value # << >> /\ Find(email_value, "@") # 0
      THEN IF domain \in domains_to_find /\ domain \notin found_domains
           THEN \/ /\ found_domains' = found_domains \cup {domain}
                   /\ saved' = saved \cup {domain}
                   /\ no_results_counter' = 0
                \/ UNCHANGED << found_domains, saved, no_results_counter >>
           ELSE /\ no_results_counter' = no_results_counter + 1
                /\ UNCHANGED << found_domains, saved >>
      ELSE UNCHANGED << found_domains, saved, no_results_counter >>

\* Lines 299-363: one turn of the loop over range(emails_this_session); it
\* breaks before counting when every domain is found.
Verification_L299 ==
  /\ pc = "L299"
  /\ emails_left > 0
  /\ IF found_domains = domains_to_find
     THEN /\ emails_left' = 0
          /\ pc' = "L243"
          /\ UNCHANGED << attempt, found_domains, saved, no_results_counter >>
     ELSE /\ attempt' = attempt + 1
          /\ \/ UNCHANGED << found_domains, saved, no_results_counter >>
             \/ \E email_value \in EmailValues : VerificationRecord(email_value)
          /\ emails_left' = emails_left - 1
          /\ pc' = IF emails_left = 1 THEN "L243" ELSE "L299"
  /\ UNCHANGED << files, suffix_file, executed, log, raised, exit_status, config,
                  screenshot_dir, blocklist_domains, new_domains_found,
                  known_domains_found, all_domains_seen, unsuccessful_attempts,
                  domains_to_find, raw_domains, filtered_domains, total_added, added, dns_answers >>

\* Line 376 and write_results (379-406): results.json is written and the value
\* returned is 0 when found_domains is not empty, 1 otherwise.
Verification_L376 ==
  /\ pc = "L376"
  /\ log' = Append(log, Report("write_results", "results.json", SortedSet(found_domains)))
  /\ exit_status' = IF found_domains # {} THEN 0 ELSE 1
  /\ pc' = "returned"
  /\ UNCHANGED << files, suffix_file, executed, raised, script_vars >>

InitVerification ==
  /\ files = [f \in Filenames |-> << >>]
  /\ suffix_file = NoRules
  /\ pc = "L225"
  /\ executed = << >>
  /\ log = << >>
  /\ raised = "none"
  /\ exit_status = -1
  /\ config \in {[is_ci |-> ci, max_attempts |-> m,
                  max_unsuccessful_attempts |-> 0, max_no_results |-> u] :
                   ci \in BOOLEAN, m \in 1..MaxAttempts, u \in 1..MaxNoResults}
  /\ screenshot_dir \in SUBSET VerificationDomains
  /\ saved = {}
  /\ blocklist_domains = {}
  /\ new_domains_found = {}
  /\ known_domains_found = {}
  /\ all_domains_seen = {}
  /\ attempt = 0
  /\ unsuccessful_attempts = 0
  /\ emails_left = 0
  /\ domains_to_find \in (SUBSET VerificationDomains) \ {{}}
  /\ found_domains = {}
  /\ no_results_counter = 0
  /\ raw_domains = {}
  /\ filtered_domains = {}
  /\ total_added = 0
  /\ added = 0
  /\ dns_answers = [f \in Filenames |-> << >>]

NextVerification ==
  \/ Verification_L225
  \/ Verification_L243
  \/ Verification_L299
  \/ Verification_L376

SpecVerification == InitVerification /\ [][NextVerification]_vars

\* C16: run_discovery stops once MAX_UNSUCCESSFUL_ATTEMPTS consecutive attempts
\* have passed without a new domain, and the counter of those attempts goes back
\* to 0 when a new domain is found.  As long as no new domain has been found
\* every attempt made so far is one of them: the counter equals the number of
\* attempts, whether they gave a known domain, no valid email or an error, and
\* no attempt is made beyond the limit.
C16_StopsAfterConsecutiveUnsuccessful ==
  new_domains_found = {} =>
    /\ unsuccessful_attempts = attempt
    /\ attempt <= config.max_unsuccessful_attempts

\* The domains run_discovery has observed, all_domains_seen holding each of
\* them from its first sighting on.
Observed == all_domains_seen

\* C17 as stated: run_discovery returns 0 exactly when an observed domain is
\* neither in the blocklist nor among the existing screenshots, and 1 otherwise.
C17_ReturnsZeroIffUnknownObserved ==
  pc = "returned" =>
    /\ exit_status \in {0, 1}
    /\ exit_status = 0 <=>
         \E d \in Observed :
            d \notin load_blocklist(files[blocklist]) \cup screenshot_dir

\* C17, amended: the existing screenshots count in local mode only.  With CI
\* set run_discovery returns 0 exactly when an observed domain is not in the
\* blocklist, a screenshot of an earlier run notwithstanding; without CI it
\* returns 0 exactly when an observed domain is neither in the blocklist nor
\* among the existing screenshots.
C17_ReturnsZeroIffUnknownObservedLocalMode ==
  pc = "returned" =>
    /\ exit_status \in {0, 1}
    /\ exit_status = 0 <=>
         \E d \in Observed :
            /\ d \notin load_blocklist(files[blocklist])
            /\ (~config.is_ci => d \notin screenshot_dir)

\* In CI mode n.com, which has a screenshot, was the only domain observed that
\* is not in the blocklist, and run_discovery returned 0.
C17_Witness ==
  /\ pc = "returned"
  /\ config.is_ci
  /\ exit_status = 0
  /\ new_domains_found = { << "n", ".", "c", "o", "m" >> }
  /\ screenshot_dir = { << "n", ".", "c", "o", "m" >> }

(***************************************************************************)
(* fetch_domains.py: main and add_domains_to_blocklist                     *)
(***************************************************************************)

\* The blocklist file fetch_domains finds: missing, empty, one entry, two
\* entries in ascending and in descending order, a comment line with a blank
\* line and an entry written with blanks and an upper-case letter.
FetchBlocklists ==
  { Absent,
    << >>,
    << << "b", ".", "c", "o", "m" >> >>,
    << << "a", ".", "c", "o", "m" >>, << "b", ".", "c", "o", "m" >> >>,
    << << "b", ".", "c", "o", "m" >>, << "a", ".", "c", "o", "m" >> >>,
    << << "#", "c" >>, << >>, << " ", "B", ".", "c", "o", "m" >> >> }

\* The domains add_domains_to_blocklist is given when it is called on its own.
AddDomains ==
  { << "a", ".", "c", "o", "m" >>,
    << "c", ".", "c", "o", "m" >>,
    << "A", ".", "c", "o", "m" >>,
    << >> }

\* What fetcher.fetch() can return: names with blanks and upper-case letters,
\* a public suffix, names with one and with two private labels, an empty text,
\* a name with an empty label, a name under an exception rule.
RawDomains ==
  { << " ", "A", ".", "c", "o", "m", " " >>,
    << "c", ".", "c", "o", "m" >>,
    << "c", "o", ".", "u", "k" >>,
    << "f", "o", "o", ".", "c", "o", ".", "u", "k" >>,
    << "m", "a", "i", "l", ".", "f", "o", "o", ".", "c", "o", ".", "u", "k" >>,
    << >>,
    << "a", ".", ".", "c", "o", "m" >>,
    << "w", "w", "w", ".", "c", "k" >> }

\* load_existing_domains: the non-blank lines, stripped and in lower case; the
\* empty set when the file does not exist.
load_existing_domains(file) ==
  IF file = Absent THEN {}
  ELSE {Lower(Strip(file[i])) : i \in {j \in DOMAIN file : Strip(file[j]) # << >>}}

\* sorted(merged, key=lambda s: s.lower()): the arrangements of the set in
\* ascending order of the lower-case text.  Elements with the same key come in
\* the order the set yields them, which the language leaves open.
SortedByLowerKey(S) ==
  {w \in [1..Cardinality(S) -> S] :
     /\ \A i, j \in DOMAIN w : i # j => w[i] # w[j]
     /\ \A i \in 1..(Len(w) - 1) : StrLeq(Lower(w[i]), Lower(w[i + 1]))}

\* add_domains_to_blocklist that opens the file in append mode and writes the
\* missing domains behind the lines that are there.
add_domains_to_blocklist_Appends(new_domains, filename, ret) ==
  LET existing == load_existing_domains(files[filename])
      missing == new_domains \ existing
      old == IF files[filename] = Absent THEN << >> ELSE files[filename]
  IN  /\ executed' = Append(executed,
                            Call("add_domains_to_blocklist", << new_domains, filename >>))
      /\ log' = Append(log, Report("add_domains_to_blocklist", filename, SortedSet(missing)))
      /\ IF missing = {}
         THEN added' = 0 /\ UNCHANGED files
         ELSE /\ files' = [files EXCEPT ![filename] = old \o SortedSet(missing)]
              /\ added' = Cardinality(missing)
      /\ pc' = ret

\* add_domains_to_blocklist (92-114): nothing is written when no domain is
\* missing; otherwise the file is written anew from the merged set.
add_domains_to_blocklist(new_domains, filename, ret) ==
  LET existing == load_existing_domains(files[filename])
      missing == new_domains \ existing
      merged == existing \cup {d \in missing : d # << >>}
  IN  /\ executed' = Append(executed,
                            Call("add_domains_to_blocklist", << new_domains, filename >>))
      /\ log' = Append(log, Report("add_domains_to_blocklist", filename, SortedSet(missing)))
      /\ IF missing = {}
         THEN added' = 0 /\ UNCHANGED files
         ELSE /\ \E w \in SortedByLowerKey(merged) :
                   files' = [files EXCEPT ![filename] = w]
              /\ added' = Cardinality(missing)
      /\ pc' = ret

\* main, lines 147-156, without the test on the number of private parts.
FilterSecondLevel_AnyDepth(psl, raw) ==
  {Lower(Strip(d)) : d \in
     {e \in raw :
        LET dd == Lower(Strip(e))
        IN  /\ dd # << >>
            /\ privateparts(psl, dd) # None
            /\ publicsuffix(psl, dd) # dd}}

\* main, lines 147-156: filtered_domains.
FilterSecondLevel(psl, raw) ==
  {Lower(Strip(d)) : d \in
     {e \in raw :
        LET dd == Lower(Strip(e))
        IN  /\ dd # << >>
            /\ privateparts(psl, dd) # None
            /\ Len(privateparts(psl, dd)) = 1
            /\ publicsuffix(psl, dd) # dd}}

\* main, lines 130-136: the public suffix list is fetched with raise_for_status;
\* any exception is printed and the script exits with 1.
Fetch_L130 ==
  /\ pc = "L130"
  /\ \/ suffix_file' = PublicSuffixRules /\ Return("L141")
     \/ SysExit1(Report("main", "", << >>)) /\ UNCHANGED suffix_file
  /\ UNCHANGED << files, executed >>

\* main, lines 141-158: fetcher.fetch() and the filter.  An exception in the
\* fetcher is caught on line 166 and the loop goes on to the summary.
Fetch_L141 ==
  /\ pc = "L141"
  /\ \/ /\ raw_domains' \in SUBSET RawDomains
        /\ filtered_domains' = FilterSecondLevel(suffix_file, raw_domains')
        /\ pc' = "L160"
     \/ /\ pc' = "L170"
        /\ UNCHANGED << raw_domains, filtered_domains >>
  /\ UNCHANGED << files, suffix_file, executed, log, raised, exit_status, config,
                  screenshot_dir, saved, blocklist_domains, new_domains_found,
                  known_domains_found, all_domains_seen, attempt,
                  unsuccessful_attempts, emails_left, domains_to_find,
                  found_domains, no_results_counter, total_added, added, dns_answers >>

\* main, lines 160-165: the filtered domains are added when there are any.
Fetch_L160 ==
  /\ pc = "L160"
  /\ IF filtered_domains # {}
     THEN /\ add_domains_to_blocklist(filtered_domains, blocklist, "L170")
          /\ total_added' = total_added + added'
     ELSE /\ pc' = "L170"
          /\ UNCHANGED << files, executed, log, added, total_added >>
  /\ UNCHANGED << suffix_file, raised, exit_status, config, screenshot_dir, saved,
                  blocklist_domains, new_domains_found, known_domains_found,
                  all_domains_seen, attempt, unsuccessful_attempts, emails_left,
                  domains_to_find, found_domains, no_results_counter,
                  raw_domains, filtered_domains, dns_answers >>

\* main, lines 170-179: the summary and sys.exit(0) in both branches.
Fetch_L170 ==
  /\ pc = "L170"
  /\ log' = Append(log, Report("main", "", << >>))
  /\ exit_status' = 0
  /\ pc' = "end"
  /\ UNCHANGED << files, suffix_file, executed, raised, script_vars >>

\* add_domains_to_blocklist called on its own with any set of domains.
Call_add_domains_to_blocklist ==
  /\ pc = "call"
  /\ \E new_domains \in SUBSET AddDomains :
        add_domains_to_blocklist(new_domains, blocklist, "returned")
  /\ UNCHANGED << suffix_file, raised, exit_status, config, screenshot_dir, saved,
                  blocklist_domains, new_domains_found, known_domains_found,
                  all_domains_seen, attempt, unsuccessful_attempts, emails_left,
                  domains_to_find, found_domains, no_results_counter,
                  raw_domains, filtered_domains, total_added, dns_answers >>

InitFetch ==
  /\ files \in {[f \in Filenames |-> IF f = blocklist THEN b ELSE << >>] :
                  b \in FetchBlocklists}
  /\ suffix_file = NoRules
  /\ pc \in {"L130", "call"}
  /\ executed = << >>
  /\ log = << >>
  /\ raised = "none"
  /\ exit_status = -1
  /\ ScriptsIdle

NextFetch ==
  \/ Fetch_L130
  \/ Fetch_L141
  \/ Fetch_L160
  \/ Fetch_L170
  \/ Call_add_domains_to_blocklist

SpecFetch == InitFetch /\ [][NextFetch]_vars

\* The lines of the blocklist file, none when the file does not exist.
BlocklistLines(fs) == IF fs[blocklist] = Absent THEN << >> ELSE fs[blocklist]

C20_PassesOnlySecondLevelDomains ==
  pc \in {"L170", "end"} =>
    \A i \in DOMAIN executed :
       executed[i].fn = "add_domains_to_blocklist" =>
         /\ executed[i].args[1] # {}
         /\ \A d \in executed[i].args[1] :
               /\ d # << >>
               /\ d = Lower(d)
               /\ HasPrivatePart(d)
               /\ PrivatePartCount(d) = 1
               /\ ~IsExactPublicSuffix(d)

\* main fetched a name with blanks and an upper-case letter, a public suffix and
\* a name with two private labels, and passed on a.com alone.
C20_Witness ==
  /\ pc = "end"
  /\ raw_domains = { << " ", "A", ".", "c", "o", "m", " " >>,
                     << "c", "o", ".", "u", "k" >>,
                     << "m", "a", "i", "l", ".", "f", "o", "o", ".", "c", "o", ".", "u", "k" >> }
  /\ executed = << Call("add_domains_to_blocklist",
                        << { << "a", ".", "c", "o", "m" >> }, blocklist >>) >>

\* C19: the public-suffix check reports each violating entry with the number,
\* counted from 1 over all the lines of the file, blank and comment lines
\* included, of the line that holds it, in the order of the file.
C19_LineNumbers ==
  (Called("check_for_public_suffixes") /\ FailedCheck) =>
    LET items == log[1].items
    IN  /\ \A n \in DOMAIN items :
             /\ items[n].lineno \in 1..Len(CalledLines)
             /\ StripComment(CalledLines[items[n].lineno]) = items[n].text
             /\ IsExactPublicSuffix(items[n].text)
        /\ \A n \in 1..(Len(items) - 1) : items[n].lineno < items[n + 1].lineno
        /\ \A i \in DOMAIN CalledLines :
             (StripComment(CalledLines[i]) # << >>
                /\ IsExactPublicSuffix(StripComment(CalledLines[i]))) =>
               \E n \in DOMAIN items : items[n].lineno = i

\* co.uk on the second line, behind a comment line or a blank line: the number
\* reported is 2.
C19_Witness ==
  /\ Called("check_for_public_suffixes")
  /\ FailedCheck
  /\ Len(CalledLines) = 2
  /\ StripComment(CalledLines[1]) = << >>
  /\ log[1].items = << [lineno |-> 2, text |-> << "c", "o", ".", "u", "k" >>] >>

(***************************************************************************)
(* verify_dns.py: check_dns on the allow list, then on the deny list       *)
(***************************************************************************)

\* The lines of the lists verify_dns.py reads.
DnsLines == { << "a", ".", "c", "o", "m" >>, << " ", "b", ".", "c", "o", "m" >> }

\* What dns.resolver.resolve(name, 'MX', raise_on_no_answer=False, lifetime=1)
\* does: it returns an answer with MX records or with none, or it raises
\* NXDOMAIN, Timeout, or an exception check_dns has no handler for
\* (dns.resolver.NoNameservers when every server fails to answer).
DnsOutcomes == {"MX", "NoMX", "NXDOMAIN", "Timeout", "NoNameservers"}

\* The character check_dns writes for a line, none for an exception it does
\* not catch.
DnsMark(outcome) ==
  CASE outcome = "MX" -> "."
    [] outcome = "NoMX" -> "M"
    [] outcome = "NXDOMAIN" -> "X"
    [] outcome = "Timeout" -> "T"

DnsHandled == {"MX", "NoMX", "NXDOMAIN", "Timeout"}

\* check_dns (19-47): the loop resolves line after line and writes one
\* character for each; an exception without a handler leaves the loop and the
\* script with a traceback; after the loop the invalid lines are printed and the
\* script exits with 1 when there are any.
check_dns(filename, ret) ==
  LET lines == files[filename]
      answers == dns_answers[filename]
      unhandled == {i \in DOMAIN lines : answers[i] \notin DnsHandled}
      last == IF unhandled = {} THEN Len(lines)
              ELSE (CHOOSE i \in unhandled : \A j \in unhandled : i <= j) - 1
      marks == [i \in 1..last |-> DnsMark(answers[i])]
      stripped == [i \in DOMAIN lines |-> Strip(lines[i])]
      bad == {i \in DOMAIN lines : answers[i] \in {"NoMX", "NXDOMAIN", "Timeout"}}
      invalid_dns == [n \in 1..Cardinality(bad) |-> stripped[Ascending(bad)[n]]]
  IN  /\ executed' = Append(executed, Call("check_dns", << filename >>))
      /\ IF unhandled # {}
         THEN /\ log' = Append(log, Report("stdout", filename, marks))
              /\ raised' = answers[last + 1]
              /\ exit_status' = 1
              /\ pc' = "exit"
         ELSE IF invalid_dns # << >>
         THEN /\ log' = log \o << Report("stdout", filename, marks),
                                  Report("check_dns", filename, invalid_dns) >>
              /\ exit_status' = 1
              /\ pc' = "exit"
              /\ UNCHANGED raised
         ELSE /\ log' = Append(log, Report("stdout", filename, marks))
              /\ pc' = ret
              /\ UNCHANGED << raised, exit_status >>
      /\ UNCHANGED << files, suffix_file, script_vars >>

Dns_L52 == pc = "L52" /\ check_dns(allowlist, "L54")
Dns_L54 == pc = "L54" /\ check_dns(blocklist, "L55")

\* The end of the script: the interpreter exits with 0.
Dns_L55 ==
  /\ pc = "L55"
  /\ exit_status' = 0
  /\ pc' = "end"
  /\ UNCHANGED << files, suffix_file, executed, log, raised, script_vars >>

InitDns ==
  /\ files \in {[f \in Filenames |-> IF f = allowlist THEN a ELSE d] :
                  a \in SeqsUpTo(DnsLines, MaxAllow), d \in SeqsUpTo(DnsLines, MaxDeny)}
  /\ suffix_file = NoRules
  /\ pc = "L52"
  /\ executed = << >>
  /\ log = << >>
  /\ raised = "none"
  /\ exit_status = -1
  /\ config = [is_ci |-> FALSE, max_attempts |-> 0,
               max_unsuccessful_attempts |-> 0, max_no_results |-> 0]
  /\ screenshot_dir = {}
  /\ saved = {}
  /\ blocklist_domains = {}
  /\ new_domains_found = {}
  /\ known_domains_found = {}
  /\ all_domains_seen = {}
  /\ attempt = 0
  /\ unsuccessful_attempts = 0
  /\ emails_left = 0
  /\ domains_to_find = {}
  /\ found_domains = {}
  /\ no_results_counter = 0
  /\ raw_domains = {}
  /\ filtered_domains = {}
  /\ total_added = 0
  /\ added = 0
  /\ dns_answers \in {[f \in Filenames |-> IF f = allowlist THEN a ELSE d] :
                        a \in [DOMAIN files[allowlist] -> DnsOutcomes],
                        d \in [DOMAIN files[blocklist] -> DnsOutcomes]}

NextDns ==
  \/ Dns_L52
  \/ Dns_L54
  \/ Dns_L55

SpecDns == InitDns /\ [][NextDns]_vars

\* The lines of a list that gave NXDOMAIN, timed out or returned no MX record.
InvalidInDns(f) ==
  {i \in DOMAIN files[f] : dns_answers[f][i] \in {"NXDOMAIN", "Timeout", "NoMX"}}

\* C21: a call of check_dns has resolved every line of its list, one character
\* written for each; the run has ended with exit status 1 in that call exactly
\* when some line of that list gave NXDOMAIN, timed out or returned no MX
\* record; the deny list is examined only when the allow list had no such line.
C21_DnsExitIffInvalidLine ==
  /\ \A k \in DOMAIN executed :
        LET f == executed[k].args[1]
        IN  /\ Len(log[k].items) = Len(files[f])
            /\ (k = Len(executed) /\ exit_status = 1) <=> InvalidInDns(f) # {}
  /\ Len(executed) = 2 => InvalidInDns(allowlist) = {}

\* C22: once check_for_third_level_domains has been called in a run of
\* verify.py, check_for_public_suffixes was called on the deny list before it
\* and returned, no entry of the deny list equals its own public suffix, and
\* every entry has a public suffix with at least one label in front of it.
C22_DomainLevelCheckAfterPublicSuffixCheck ==
  \A k \in DOMAIN executed :
    executed[k].fn = "check_for_third_level_domains" =>
      /\ \E j \in 1..(k - 1) :
            executed[j] = Call("check_for_public_suffixes", << blocklist >>)
      /\ \A e \in TrimmedEntries(files[blocklist]) :
            /\ ~IsExactPublicSuffix(e)
            /\ HasPrivatePart(e)

\* C23 as stated: in every state of run_discovery the new and the known domains
\* found are disjoint, together they are the domains seen, no new domain is in
\* the blocklist or among the existing screenshots, and every known domain
\* found is in one of the two.
C23_NewAndKnownPartitionSeen ==
  LET known == load_blocklist(files[blocklist])
                 \cup load_screenshotted_domains(screenshot_dir)
  IN  /\ new_domains_found \cap known_domains_found = {}
      /\ new_domains_found \cup known_domains_found = all_domains_seen
      /\ new_domains_found \cap known = {}
      /\ known_domains_found \subseteq known

\* C23, amended: the known set is the blocklist, and the existing screenshots
\* belong to it in local mode only.  In every state of run_discovery the new
\* and the known domains found are disjoint, together they are the domains
\* seen, no new domain is in that known set and every known domain found is.
C23_NewAndKnownPartitionSeenLocalMode ==
  LET known == load_blocklist(files[blocklist])
                 \cup (IF config.is_ci THEN {}
                       ELSE load_screenshotted_domains(screenshot_dir))
  IN  /\ new_domains_found \cap known_domains_found = {}
      /\ new_domains_found \cup known_domains_found = all_domains_seen
      /\ new_domains_found \cap known = {}
      /\ known_domains_found \subseteq known

\* In local mode the run has seen a.com, which the blocklist holds, and n.com,
\* which has a screenshot, and b.com, which is in neither: two known domains
\* and one new one.
C23_Witness ==
  /\ ~config.is_ci
  /\ known_domains_found = { << "a", ".", "c", "o", "m" >>, << "n", ".", "c", "o", "m" >> }
  /\ new_domains_found = { << "b", ".", "c", "o", "m" >> }
  /\ all_domains_seen = known_domains_found \cup new_domains_found

============================================================================
